---- MODULE Spec2Model ----
(***************************************************************************)
(* A model of nctools' DXF reader and writer (src/src/nctools/dxf.py) and  *)
(* of its bounding box (src/src/nctools/bbox.py).                          *)
(*                                                                         *)
(* A DXF file is a sequence of text lines.  Lines are TLA+ strings, so a   *)
(* group code "10" and a value "10" are the same token, as they are for    *)
(* list.index in the code, while "10.0" is another one.  Positions in a    *)
(* list are 0-based as in Python: element p of a list s is s[p + 1].       *)
(*                                                                         *)
(* Numbers are integers.  Angles in radians are counted in units of        *)
(* pi/360, so that math.radians(d) is 2 * d and a full turn (2 * math.pi)  *)
(* is 720; the rounding of floating point arithmetic is not modelled.      *)
(***************************************************************************)
EXTENDS Integers, Sequences, FiniteSets, TLC

VARIABLES
    pc,        \* position of the run: which operation comes next
    file,      \* the lines of the DXF file, as readlines() gives them (no newline)
    result,    \* what reader returned: [ok, err, ents]
    given,     \* the entity list as the caller built it, before writer saw it
    entities,  \* the caller's entity list (writer flips its clockwise arcs in place)
    box,       \* the BBox object's slots, or NoBox
    arg,       \* the argument of the last BBox call
    raised     \* the exception the last BBox call raised, or ""

vars == <<pc, file, result, given, entities, box, arg, raised>>

---------------------------------------------------------------------------
(* Bounds of the model *)

\* records between the section markers of a generated file
MaxRecs == 2
\* VERTEX records of a generated POLYLINE
MaxVerts == 2
\* the largest number a line of text is parsed to
MaxNum == 400
\* entities in the list handed to the writer
MaxEnts == 2
\* points in the list handed to a BBox call
MaxPts == 2
\* the largest coordinate of such a point
MaxCoord == 1

---------------------------------------------------------------------------
(* Text and numbers *)

Min(S) == CHOOSE m \in S : \A n \in S : m <= n

Max(S) == CHOOSE m \in S : \A n \in S : m >= n

\* the sequences of at most n elements of S
RECURSIVE SeqsUpTo(_, _)
SeqsUpTo(S, n) ==
    IF n = 0 THEN {<<>>}
    ELSE LET shorter == SeqsUpTo(S, n - 1)
         IN  shorter \cup {Append(q, x) : q \in shorter, x \in S}

\* str(n) of an int n >= 0
IntStr(n) == ToString(n)

\* str(x) of a float x with an integral value >= 0: "3.0"
FloatStr(n) == ToString(n) \o ".0"

\* the text lines float() accepts, with their values
FloatTable ==
    [s \in {IntStr(n) : n \in 0..MaxNum} \cup {FloatStr(n) : n \in 0..MaxNum} |->
        CHOOSE n \in 0..MaxNum : s = IntStr(n) \/ s = FloatStr(n)]

IsFloat(s) == s \in DOMAIN FloatTable

Float(s) == FloatTable[s]

\* the text lines int() accepts: no decimal point
IsInt(s) == s \in {IntStr(n) : n \in 0..MaxNum}

\* s.strip() on the lines the model uses
Strip(s) ==
    CASE s = "  0" -> "0"
      [] s = "  2" -> "2"
      [] s = "  8" -> "8"
      [] s = " 10" -> "10"
      [] s = " 20" -> "20"
      [] s = " 30" -> "30"
      [] s = " 11" -> "11"
      [] s = " 21" -> "21"
      [] s = " 31" -> "31"
      [] s = " 40" -> "40"
      [] s = " 50" -> "50"
      [] s = " 51" -> "51"
      [] s = " " -> ""
      [] OTHER -> s

\* math.radians and math.degrees, radians in units of pi/360
Radians(d) == 2 * d

Degrees(r) == r \div 2

\* 2*math.pi
TwoPi == 720

\* math.atan(b)*4, the included angle of a bulge b: it is kept as b, which is 0
\* exactly when the angle is
Atan4(b) == b

---------------------------------------------------------------------------
(* Entities: nctools.ent is not among the sources; the constructors keep   *)
(* the attributes dxf.py reads (x, y, cx, cy, R, a, ccw, index, layer).    *)
(* src is not an attribute: it records the positions of the lines the      *)
(* entity was read from.                                                   *)

Line(x1, y1, x2, y2, index, layer, src) ==
    [kind |-> "Line", x |-> <<x1, x2>>, y |-> <<y1, y2>>,
     index |-> index, layer |-> layer, src |-> src]

Arc(cx, cy, R, a0, a1, index, layer, src) ==
    [kind |-> "Arc", cx |-> cx, cy |-> cy, R |-> R, a |-> <<a0, a1>>, ccw |-> TRUE,
     index |-> index, layer |-> layer, src |-> src]

\* ent.arcdata(sp, ep, a): centre, radius and angles of the arc from sp to ep
\* with included angle a; kept as the chord and the bulge they are computed from
ArcData(sp, ep, a) == [chord |-> <<sp, ep>>, atan4 |-> a]

\* arcdata has no arc to give for a chord of length zero
ArcDataFails(sp, ep) == sp = ep

BulgeArc(sp, ep, a, index, layer, src) ==
    [kind |-> "Arc", bulge |-> ArcData(sp, ep, a), ccw |-> TRUE,
     index |-> index, layer |-> layer, src |-> src]

---------------------------------------------------------------------------
(* The reader *)

Ok(es) == [ok |-> TRUE, err |-> "", ents |-> es]

Raise(e) == [ok |-> FALSE, err |-> e, ents |-> <<>>]

\* lines.index(x, start): the first position >= start holding x, -1 for ValueError
Index(lines, x, start) ==
    LET hits == {p \in start..(Len(lines) - 1) : lines[p + 1] = x}
    IN  IF hits = {} THEN -1 ELSE Min(hits)

\* [num for num, ln in enumerate(lines) if ln == word], ascending
RECURSIVE MarkersFrom(_, _, _)
MarkersFrom(lines, word, p) ==
    IF p >= Len(lines) THEN <<>>
    ELSE (IF lines[p + 1] = word THEN <<p>> ELSE <<>>) \o MarkersFrom(lines, word, p + 1)

Markers(lines, word) == MarkersFrom(lines, word, 0)

\* The chain  num = lines.index(code, num) + 1; v = lines[num]  (float(v) where
\* the field is a number), the first search starting at cur: the positions of
\* the values, or the exception of the first step that fails.
RECURSIVE Locate(_, _, _)
Locate(lines, fields, cur) ==
    IF fields = <<>> THEN [err |-> "", pos |-> <<>>]
    ELSE LET f == Head(fields)
             c == Index(lines, f.code, cur)
             num == c + 1
         IN  IF c = -1 THEN [err |-> "ValueError", pos |-> <<>>]
             ELSE IF num >= Len(lines) THEN [err |-> "IndexError", pos |-> <<>>]
             ELSE IF f.num /\ ~IsFloat(lines[num + 1])
                  THEN [err |-> "ValueError", pos |-> <<>>]
             ELSE LET rest == Locate(lines, Tail(fields), num)
                  IN  [err |-> rest.err, pos |-> <<num>> \o rest.pos]

Str(code) == [code |-> code, num |-> FALSE]

Num(code) == [code |-> code, num |-> TRUE]

LineFields == <<Str("8"), Num("10"), Num("20"), Num("11"), Num("21")>>

ArcFields == <<Str("8"), Num("10"), Num("20"), Num("40"), Num("50"), Num("51")>>

CircleFields == <<Str("8"), Num("10"), Num("20"), Num("40")>>

\* the body of _get_lines' loop for the marker at i
LineAt(lines, i, p) ==
    Line(Float(lines[p[2] + 1]), Float(lines[p[3] + 1]),
         Float(lines[p[4] + 1]), Float(lines[p[5] + 1]), i, lines[p[1] + 1], p)

\* lines 124-125: if a2 < a1: a2 += 2*math.pi
NormEnd(a1, a2) == IF a2 < a1 THEN a2 + TwoPi ELSE a2

\* the body of _get_arcs' loop for the marker at i
ArcAt(lines, i, p) ==
    LET a1 == Radians(Float(lines[p[5] + 1]))
        a2 == Radians(Float(lines[p[6] + 1]))
    IN  Arc(Float(lines[p[2] + 1]), Float(lines[p[3] + 1]), Float(lines[p[4] + 1]),
            a1, NormEnd(a1, a2), i, lines[p[1] + 1], p)

\* the body of _get_circles' loop for the marker at i
CircleAt(lines, i, p) ==
    Arc(Float(lines[p[2] + 1]), Float(lines[p[3] + 1]), Float(lines[p[4] + 1]),
        0, TwoPi, i, lines[p[1] + 1], p)

\* the entity built for the marker at i once its values are found at p
EntityAt(lines, i, word, p) ==
    CASE word = "LINE" -> LineAt(lines, i, p)
      [] word = "ARC" -> ArcAt(lines, i, p)
      [] OTHER -> CircleAt(lines, i, p)

\* rv.append(e) before the rest of a loop, unless the rest raises
Cons(e, rest) == IF rest.ok THEN Ok(<<e>> \o rest.ents) ELSE rest

\* rv of one pass of a loop followed by the passes after it
Join(one, rest) ==
    IF ~one.ok THEN one
    ELSE IF rest.ok THEN Ok(one.ents \o rest.ents) ELSE rest

\* the loop of _get_lines, _get_arcs and _get_circles over the markers idx:
\* the entities in marker order, or the first exception
RECURSIVE ScanLoop(_, _, _, _)
ScanStep(lines, idx, fields, word, loc) ==
    IF loc.err # "" THEN Raise(loc.err)
    ELSE Cons(EntityAt(lines, Head(idx), word, loc.pos),
              ScanLoop(lines, Tail(idx), fields, word))

ScanLoop(lines, idx, fields, word) ==
    IF idx = <<>> THEN Ok(<<>>)
    ELSE ScanStep(lines, idx, fields, word, Locate(lines, fields, Head(idx)))

GetLines(lines) == ScanLoop(lines, Markers(lines, "LINE"), LineFields, "LINE")

GetArcs(lines) == ScanLoop(lines, Markers(lines, "ARC"), ArcFields, "ARC")

GetCircles(lines) == ScanLoop(lines, Markers(lines, "CIRCLE"), CircleFields, "CIRCLE")

\* lines 162-166 of _get_polylines: the flag after the first "70" at or after num;
\* a missing "70" or a value int() refuses gives an open polyline
ClosedAt(lines, c) ==
    IF c = -1 THEN [err |-> "", closed |-> FALSE]
    ELSE IF c + 1 >= Len(lines) THEN [err |-> "IndexError", closed |-> FALSE]
    ELSE IF ~IsInt(lines[c + 2]) THEN [err |-> "", closed |-> FALSE]
    ELSE [err |-> "", closed |-> (Float(lines[c + 2]) % 2 = 1)]

ClosedFlag(lines, num) == ClosedAt(lines, Index(lines, "70", num))

\* lines 178-185: the included angle of a vertex, the first "42" at or after its
\* y value being at c (-1: none), in the window that ends at k
BulgeAt(lines, c, k) ==
    IF c = -1 THEN 0
    ELSE IF c + 1 < k
         THEN (IF IsFloat(lines[c + 2]) THEN Atan4(Float(lines[c + 2])) ELSE 0)
         ELSE 0

BulgeAngle(lines, num, k) == BulgeAt(lines, Index(lines, "42", num), k)

NoVertices(e) == [err |-> e, pnts |-> <<>>, angles |-> <<>>, at |-> <<>>]

\* pnts.append, angles.append before the rest of the vertex loop
VCons(pt, an, j, rest) ==
    [err |-> rest.err, pnts |-> <<pt>> \o rest.pnts,
     angles |-> <<an>> \o rest.angles, at |-> <<j>> \o rest.at]

\* lines 172-185: the loop over the vertex markers vi, each paired with the next
\* one, the last one with end
RECURSIVE VertexLoop(_, _, _)
VertexStep(lines, vi, end, loc) ==
    IF loc.err # "" THEN NoVertices(loc.err)
    ELSE VCons(<<Float(lines[loc.pos[1] + 1]), Float(lines[loc.pos[2] + 1])>>,
               BulgeAngle(lines, loc.pos[2], IF Len(vi) > 1 THEN vi[2] ELSE end),
               Head(vi),
               VertexLoop(lines, Tail(vi), end))

VertexLoop(lines, vi, end) ==
    IF vi = <<>> THEN NoVertices("")
    ELSE VertexStep(lines, vi, end, Locate(lines, <<Num("10"), Num("20")>>, Head(vi)))

\* line 168: the vertex markers the points of the polyline at i are read from
VertexMarkers(lines, i, end) == Markers(lines, "VERTEX")

\* lines 190-194: the entity of the segment from sp to ep with included angle a
Segment(sp, ep, a, i, layer, src) ==
    IF a = 0 THEN Line(sp[1], sp[2], ep[1], ep[2], i, layer, src)
    ELSE BulgeArc(sp, ep, a, i, layer, src)

\* lines 188-194: one Line or Arc per zip(pnts, pnts[1:], angles), from the n-th on
RECURSIVE Segments(_, _, _, _, _, _)
Segments(pnts, at, angles, n, i, layer) ==
    IF n > Len(angles) \/ n + 1 > Len(pnts) THEN Ok(<<>>)
    ELSE IF angles[n] # 0 /\ ArcDataFails(pnts[n], pnts[n + 1])
         THEN Raise("ZeroDivisionError")
    ELSE Cons(Segment(pnts[n], pnts[n + 1], angles[n], i, layer, <<at[n], at[n + 1]>>),
              Segments(pnts, at, angles, n + 1, i, layer))

\* lines 186-187: if closed: pnts.append(pnts[0])
ClosePath(s, closed) == IF closed THEN Append(s, s[1]) ELSE s

\* lines 186-194 for the vertices vl
PolySegments(i, layer, closed, vl) ==
    IF vl.err # "" THEN Raise(vl.err)
    ELSE IF closed /\ vl.pnts = <<>> THEN Raise("IndexError")
    ELSE Segments(ClosePath(vl.pnts, closed), ClosePath(vl.at, closed),
                  vl.angles, 1, i, layer)

\* lines 162-185 for the layer found
PolyVertices(lines, i, layer, flag, end) ==
    IF flag.err # "" THEN Raise(flag.err)
    ELSE IF end = -1 THEN Raise("ValueError")
    ELSE PolySegments(i, layer, flag.closed,
                      VertexLoop(lines, VertexMarkers(lines, i, end), end))

\* lines 160-161 and on
PolyLayer(lines, i, loc) ==
    IF loc.err # "" THEN Raise(loc.err)
    ELSE PolyVertices(lines, i, lines[loc.pos[1] + 1],
                      ClosedFlag(lines, loc.pos[1]), Index(lines, "SEQEND", i))

\* the body of _get_polylines' loop for the marker at i
PolylineAt(lines, i) == PolyLayer(lines, i, Locate(lines, <<Str("8")>>, i))

RECURSIVE PolyLoop(_, _)
PolyLoop(lines, idx) ==
    IF idx = <<>> THEN Ok(<<>>)
    ELSE Join(PolylineAt(lines, Head(idx)), PolyLoop(lines, Tail(idx)))

GetPolylines(lines) == PolyLoop(lines, Markers(lines, "POLYLINE"))

\* list.sort(key=lambda x: x.index): stable, ascending
RECURSIVE Insert(_, _)
Insert(sorted, e) ==
    IF sorted = <<>> THEN <<e>>
    ELSE IF sorted[Len(sorted)].index <= e.index THEN Append(sorted, e)
    ELSE Append(Insert(SubSeq(sorted, 1, Len(sorted) - 1), e), sorted[Len(sorted)])

RECURSIVE SortFrom(_, _)
SortFrom(es, done) ==
    IF es = <<>> THEN done ELSE SortFrom(Tail(es), Insert(done, Head(es)))

\* a reader that returns the scans' lists as concatenated
Unsorted(es) == es

SortByIndex(es) == SortFrom(es, <<>>)

\* lines 45-48: the four scans in the order reader runs them, or the first exception
Scans(lines) ==
    Join(GetLines(lines),
         Join(GetArcs(lines), Join(GetCircles(lines), GetPolylines(lines))))

\* line 41: the stripped lines of the file
Data(f) == [n \in 1..Len(f) |-> Strip(f[n])]

\* line 42: soe, or -1 for ValueError
SectionStartAt(c) == IF c = -1 THEN -1 ELSE c + 1

SectionStart(data) == SectionStartAt(Index(data, "ENTITIES", 0))

\* a reader that takes the end of the file for a missing ENDSEC
EndOrEof(data, c) == IF c = -1 THEN Len(data) ELSE c

SectionEndOrEof(data, soe) == EndOrEof(data, Index(data, "ENDSEC", soe))

\* line 43: eoe, or -1 for ValueError
SectionEnd(data, soe) == Index(data, "ENDSEC", soe)

\* line 44: data[soe:eoe]
Slice(data, soe, eoe) == SubSeq(data, soe + 1, eoe)

\* line 49: the sort of what the scans returned
Sorted(s) == IF s.ok THEN Ok(SortByIndex(s.ents)) ELSE s

\* lines 43-50
ReadTo(data, soe, eoe) ==
    IF eoe = -1 THEN Raise("ValueError") ELSE Sorted(Scans(Slice(data, soe, eoe)))

\* lines 42-50
ReadFrom(data, soe) ==
    IF soe = -1 THEN Raise("ValueError") ELSE ReadTo(data, soe, SectionEnd(data, soe))

\* reader, from the lines of the file to the list it returns
ReaderOf(f) == ReadFrom(Data(f), SectionStart(Data(f)))

---------------------------------------------------------------------------
(* The files the reader is given *)

NotRun == [ok |-> FALSE, err |-> "not run", ents |-> <<>>]

NoBox == [dim |-> 0]

NoArg == [op |-> "", bare |-> FALSE, pnts |-> <<>>]

LineRec(layer, x1, y1, x2, y2) ==
    <<"0", "LINE", "8", layer, "10", x1, "20", y1, "11", x2, "21", y2>>

ArcRec(layer, cx, cy, R, s, e) ==
    <<"0", "ARC", "8", layer, "10", cx, "20", cy, "40", R, "50", s, "51", e>>

CircleRec(layer, cx, cy, R) ==
    <<"0", "CIRCLE", "8", layer, "10", cx, "20", cy, "40", R>>

\* a vertex with bulge b, "" for a vertex without group code 42
VertexRec(x, y, b) ==
    <<"0", "VERTEX", "10", x, "20", y>> \o (IF b = "" THEN <<>> ELSE <<"42", b>>)

RECURSIVE Flatten(_)
Flatten(recs) == IF recs = <<>> THEN <<>> ELSE Head(recs) \o Flatten(Tail(recs))

\* a polyline with flag word flag, "" for a polyline without group code 70
PolylineRec(layer, flag, verts) ==
    <<"0", "POLYLINE", "8", layer>> \o (IF flag = "" THEN <<>> ELSE <<"70", flag>>)
        \o Flatten(verts) \o <<"0", "SEQEND">>

\* n vertices without bulge, at (1, 5), (2, 6), ...
PlainVerts(n) == [k \in 1..n |-> VertexRec(FloatStr(k), FloatStr(k + 4), "")]

\* the records of the mixed files
MixRecords ==
    {LineRec("L", "1.0", "2.0", "3.0", "4.0"),
     <<"0", "LINE", "8", "L", "10", "1.0", "20", "2.0", "11", "3.0">>,
     LineRec("", "1.0", "2.0", "3.0", "4.0"),
     <<"0", "LINE", "5", "8">> \o Tail(Tail(LineRec("L", "1.0", "2.0", "3.0", "4.0"))),
     ArcRec("M", "5.0", "5.0", "3.0", "100.0", "10.0"),
     CircleRec("M", "5.0", "5.0", "3.0"),
     <<"0", "POINT", "8", "L", "10", "7.0", "20", "7.0">>,
     PolylineRec("P", "", PlainVerts(2)),
     PolylineRec("P", "0", <<VertexRec("1.0", "5.0", "1"), VertexRec("2.0", "6.0", "")>>)}
    \cup {PolylineRec("P", flag, PlainVerts(n)) : flag \in {"0", "1"}, n \in 1..MaxVerts}

\* the concatenations of at most n records of the set recs
RECURSIVE Bodies(_, _)
Bodies(recs, n) ==
    IF n = 0 THEN {<<>>}
    ELSE LET shorter == Bodies(recs, n - 1)
         IN  shorter \cup {b \o r : b \in shorter, r \in recs}

SectionHead == <<"  0", "SECTION", "  2", "ENTITIES">>

SectionTail == <<"  0", "ENDSEC", "  0", "EOF">>

\* a section of another name, holding a LINE record
OtherSection(name) ==
    <<"  0", "SECTION", "  2", name>> \o LineRec("B", "8.0", "8.0", "9.0", "9.0")
        \o <<"  0", "ENDSEC">>

\* what a file holds around its records: the ENTITIES section as the writer frames
\* it, a file without ENTITIES, two without ENDSEC after ENTITIES, and one with
\* records in sections before and after
Frames ==
    {[head |-> SectionHead, tail |-> SectionTail],
     [head |-> <<"  0", "SECTION", "  2", "BLOCKS">>, tail |-> SectionTail],
     [head |-> SectionHead, tail |-> <<"  0", "EOF">>],
     [head |-> OtherSection("BLOCKS") \o SectionHead, tail |-> <<"  0", "EOF">>],
     [head |-> OtherSection("BLOCKS") \o SectionHead,
      tail |-> <<"  0", "ENDSEC">> \o OtherSection("OBJECTS") \o <<"  0", "EOF">>]}

Files(recs, n) == {fr.head \o b \o fr.tail : fr \in Frames, b \in Bodies(recs, n)}

MixFiles == Files(MixRecords, MaxRecs)

\* the words an angle of an ARC record is written as: with a decimal point, as
\* str() of a float writes it, or without
AngleWords == {"0.0", "10.0", "90.0", "350.0", "359.0", "51", "90"}

\* files of one ARC or one CIRCLE record
ArcRecords ==
    {ArcRec("M", "5.0", "6.0", R, s, e) : R \in {"3.0", "50"}, s \in AngleWords, e \in AngleWords}
    \cup {CircleRec("M", "5.0", "6.0", R) : R \in {"3.0", "50"}}

ArcFiles == {SectionHead \o r \o SectionTail : r \in ArcRecords}

\* the vertices of the single polylines: three points, each without bulge or with
\* a bulge of 0
PolyVertexRecords ==
    {VertexRec(pt[1], pt[2], b) :
        pt \in {<<"1.0", "5.0">>, <<"2.0", "6.0">>, <<"3.0", "42">>}, b \in {"", "0", "0.0"}}

\* files of one POLYLINE record with 1 to MaxVerts + 1 vertices
PolyRecords ==
    {PolylineRec(layer, flag, verts) :
        layer \in {"P", "70"}, flag \in {"0", "1", "2", "9"},
        verts \in SeqsUpTo(PolyVertexRecords, MaxVerts + 1) \ {<<>>}}

PolyFiles == {SectionHead \o r \o SectionTail : r \in PolyRecords}

---------------------------------------------------------------------------
(* Reading a file *)

InitFile(files) ==
    /\ pc = "read"
    /\ file \in files
    /\ result = NotRun
    /\ given = <<>>
    /\ entities = <<>>
    /\ box = NoBox
    /\ arg = NoArg
    /\ raised = ""

Init == InitFile(MixFiles)

\* reader(name) on the file
Reader ==
    /\ pc = "read"
    /\ result' = ReaderOf(file)
    /\ pc' = "done"
    /\ UNCHANGED <<file, given, entities, box, arg, raised>>

Next == Reader

Spec == Init /\ [][Next]_vars

InitArc == InitFile(ArcFiles)

SpecArc == InitArc /\ [][Next]_vars

InitPoly == InitFile(PolyFiles)

SpecPoly == InitPoly /\ [][Next]_vars

---------------------------------------------------------------------------
(* The writer *)

\* Arc.flip(): the angles exchanged and the orientation toggled
Flip(e) == [e EXCEPT !.a = <<e.a[2], e.a[1]>>, !.ccw = ~e.ccw]

\* ent.Arc(cx, cy, R, a0, a1, index, layer, ccw=False)
CwArc(cx, cy, R, a0, a1, index, layer) ==
    [Arc(cx, cy, R, a0, a1, index, layer, <<>>) EXCEPT !.ccw = FALSE]

Contour(es) == [kind |-> "Contour", entities |-> es]

\* lines 216-217 of _dxfarc: what the arc is after the call
Flipped(e) == IF ~e.ccw THEN Flip(e) ELSE e

\* lines 218-222: the lines of an arc that is counter-clockwise
ArcLines(e) ==
    <<"  0", "ARC", "  8", "snijlijnen", " 10", FloatStr(e.cx), " 20", FloatStr(e.cy),
      " 30", "0.0", " 40", FloatStr(e.R),
      " 50", FloatStr(Degrees(e.a[1])), " 51", FloatStr(Degrees(e.a[2]))>>

\* an _dxfarc that writes the arc as it is given
DxfArcAsGiven(e) == ArcLines(e)

DxfArc(e) == ArcLines(Flipped(e))

DxfLine(e) ==
    <<"  0", "LINE", "  8", "snijlijnen", " 10", FloatStr(e.x[1]), " 20", FloatStr(e.y[1]),
      " 30", "0.0", " 11", FloatStr(e.x[2]), " 21", FloatStr(e.y[2]), " 31", "0.0">>

RECURSIVE DxfContourFrom(_, _)
DxfContourFrom(es, n) ==
    IF n > Len(es) THEN <<>>
    ELSE (CASE es[n].kind = "Arc" -> DxfArc(es[n])
            [] es[n].kind = "Line" -> DxfLine(es[n])
            [] OTHER -> <<>>) \o DxfContourFrom(es, n + 1)

DxfContour(e) == DxfContourFrom(e.entities, 1)

\* lines 65-73: the lines of the entities, from the n-th on
RECURSIVE EntityLines(_, _)
EntityLines(es, n) ==
    IF n > Len(es) THEN <<>>
    ELSE (CASE es[n].kind = "Contour" -> DxfContour(es[n])
            [] es[n].kind = "Arc" -> DxfArc(es[n])
            [] OTHER -> DxfLine(es[n]) \o <<"">>) \o EntityLines(es, n + 1)

\* the entity after writer has passed over it
AfterWrite(e) ==
    CASE e.kind = "Contour" ->
            Contour([n \in 1..Len(e.entities) |->
                        IF e.entities[n].kind = "Arc" THEN Flipped(e.entities[n])
                        ELSE e.entities[n]])
      [] e.kind = "Arc" -> Flipped(e)
      [] OTHER -> e

\* lines 59-75: the list writer joins
WriterLines(progname, now, es) ==
    <<"999", "DXF file generated by " \o progname,
      "999", "This conversion was started on " \o now,
      "999", "This file contains " \o IntStr(Len(es)) \o " entities.",
      "  0", "SECTION", "  2", "ENTITIES">>
        \o EntityLines(es, 1) \o <<"  0", "ENDSEC", "  0", "EOF">> \o <<"">>

\* what readlines() gives, newlines dropped, for the text '\n'.join(lines): a last
\* line that is empty leaves only the newline that ends the line before it
FileLines(lines) ==
    IF lines # <<>> /\ lines[Len(lines)] = "" THEN SubSeq(lines, 1, Len(lines) - 1)
    ELSE lines

\* the angles of the arcs handed to the writer, in degrees
GivenDegrees == {0, 10, 350}

\* the arcs of those angles and the full circle, in both orientations
GivenArcs ==
    LET ccw == {Arc(5, 6, 3, Radians(s), Radians(e), 0, "M", <<>>) :
                    s \in GivenDegrees, e \in GivenDegrees}
                \cup {Arc(5, 6, 3, 0, TwoPi, 0, "M", <<>>)}
    IN  ccw \cup {CwArc(e.cx, e.cy, e.R, e.a[1], e.a[2], 0, "M") : e \in ccw}

GivenLines == {Line(1, 2, 3, 4, 0, "L", <<>>), Line(3, 4, 1, 8, 0, "", <<>>)}

GivenContours ==
    {Contour(<<Line(1, 2, 3, 4, 0, "L", <<>>), CwArc(5, 6, 3, 0, Radians(10), 0, "M")>>)}

GivenLists == SeqsUpTo(GivenArcs \cup GivenLines \cup GivenContours, MaxEnts)

InitRT ==
    /\ pc = "write"
    /\ given \in GivenLists
    /\ entities = given
    /\ file = <<>>
    /\ result = NotRun
    /\ box = NoBox
    /\ arg = NoArg
    /\ raised = ""

\* writer(name, progname, entities), then the file as a later reader finds it
Writer ==
    /\ pc = "write"
    /\ \E now \in {"Monday, April 27 18:04"} :
        file' = FileLines(WriterLines("dxf2nc", now, entities))
    /\ entities' = [n \in 1..Len(entities) |-> AfterWrite(entities[n])]
    /\ pc' = "read"
    /\ UNCHANGED <<result, given, box, arg, raised>>

NextRT == Writer \/ Reader

SpecRT == InitRT /\ [][NextRT]_vars

---------------------------------------------------------------------------
(* How a DXF file is read by the format's own rule, for stating the claims: *)
(* lines come in pairs, a group code and then its value, and a record runs  *)
(* from its marker (the value of a code 0) to the next code 0.              *)

\* whether the file has an ENTITIES line and an ENDSEC line after it
WellFramed(f) ==
    \E p \in 1..Len(f) :
        /\ Strip(f[p]) = "ENTITIES"
        /\ \E q \in (p + 1)..Len(f) : Strip(f[q]) = "ENDSEC"

\* the lines between the first ENTITIES and the next ENDSEC
SectionLines(f) ==
    LET p == Min({n \in 1..Len(f) : Strip(f[n]) = "ENTITIES"})
        q == Min({n \in (p + 1)..Len(f) : Strip(f[n]) = "ENDSEC"})
    IN  [n \in 1..(q - p - 1) |-> Strip(f[p + n])]

\* the position of the code 0 that ends the record, from the code at position c on
RECURSIVE RecordEndFrom(_, _)
RecordEndFrom(lines, c) ==
    IF c >= Len(lines) THEN Len(lines)
    ELSE IF lines[c + 1] = "0" THEN c
    ELSE RecordEndFrom(lines, c + 2)

RecordEnd(lines, i) == RecordEndFrom(lines, i + 1)

\* the position of the value of group code `code` in the record of the marker at
\* i, or -1
RECURSIVE ValuePosFrom(_, _, _)
ValuePosFrom(lines, c, code) ==
    IF c + 1 >= Len(lines) \/ lines[c + 1] = "0" THEN -1
    ELSE IF lines[c + 1] = code THEN c + 1
    ELSE ValuePosFrom(lines, c + 2, code)

ValuePos(lines, i, code) == ValuePosFrom(lines, i + 1, code)

HasField(lines, i, code) == ValuePos(lines, i, code) # -1

Field(lines, i, code) == lines[ValuePos(lines, i, code) + 1]

MarkerSet(lines, word) == {p \in 0..(Len(lines) - 1) : lines[p + 1] = word}

\* the entities of es whose index is i, in the order of es
AtIndex(es, i) == LET T(e) == e.index = i IN SelectSeq(es, T)

IndexSet(es) == {es[k].index : k \in 1..Len(es)}

Read == pc = "done" /\ result.ok

---------------------------------------------------------------------------
(* Claims about the reader, on the mixed files (Spec) *)

\* C1: whenever reader succeeds, the list it returns is ascending by index, and
\* for each index it holds the entities of that index in the order in which the
\* four scans (lines, arcs, circles, polylines) produced them.
C1_SortedStable ==
    Read =>
        LET es == result.ents
            cat == Scans(SectionLines(file)).ents
        IN  /\ \A k \in 1..(Len(es) - 1) : es[k].index <= es[k + 1].index
            /\ Len(es) = Len(cat)
            /\ \A i \in IndexSet(cat) \cup IndexSet(es) : AtIndex(es, i) = AtIndex(cat, i)

\* a successful read that reordered the scans' list and returned several entities
\* of one index (the segments of a polyline)
C1_Witness ==
    /\ Read
    /\ result.ents # Scans(SectionLines(file)).ents
    /\ \E i \in IndexSet(result.ents) : Len(AtIndex(result.ents, i)) >= 2
    /\ {result.ents[k].kind : k \in 1..Len(result.ents)} = {"Line", "Arc"}

\* C3: a LINE record that lacks one of the codes 8, 10, 20, 11, 21 makes the read
\* fail, and no Line returned for a LINE marker has a field read at or after the
\* end of its record.
C3_LineBoundedByRecord ==
    (pc = "done" /\ WellFramed(file)) =>
        LET lines == SectionLines(file)
        IN  /\ (\E i \in MarkerSet(lines, "LINE") :
                    \E c \in {"8", "10", "20", "11", "21"} : ~HasField(lines, i, c))
                => ~result.ok
            /\ \A k \in 1..Len(result.ents) :
                    LET e == result.ents[k]
                    IN  lines[e.index + 1] = "LINE" =>
                            \A n \in 1..Len(e.src) : e.src[n] < RecordEnd(lines, e.index)

\* C4: the segments returned for a POLYLINE marker are built from the VERTEX
\* markers between that marker and the first SEQEND after it, and from no other.
C4_OwnVertices ==
    Read =>
        LET lines == SectionLines(file)
        IN  \A k \in 1..Len(result.ents) :
                LET e == result.ents[k]
                IN  lines[e.index + 1] = "POLYLINE" =>
                        \A n \in 1..Len(e.src) :
                            /\ e.index < e.src[n]
                            /\ e.src[n] < Index(lines, "SEQEND", e.index)

\* C7: every entity of a successful read has a layer name that is not empty.
C7_LayerNotEmpty ==
    Read => \A k \in 1..Len(result.ents) : result.ents[k].layer # ""

\* C8: no two entities of a successful read have the same index.
C8_DistinctIndex ==
    Read =>
        \A j, k \in 1..Len(result.ents) : j # k => result.ents[j].index # result.ents[k].index

\* C6: a file without ENTITIES, or without ENDSEC after the first ENTITIES, gives
\* an error and no entity; every entity of a successful read has its marker, and
\* every line it was read from, between ENTITIES and ENDSEC.
C6_AllOrNothing ==
    pc = "done" =>
        /\ ~WellFramed(file) => (~result.ok /\ result.ents = <<>>)
        /\ ~result.ok => result.ents = <<>>
        /\ result.ok =>
            LET lines == SectionLines(file)
            IN  \A k \in 1..Len(result.ents) :
                    LET e == result.ents[k]
                    IN  /\ e.index \in 0..(Len(lines) - 1)
                        /\ lines[e.index + 1] \in {"LINE", "ARC", "CIRCLE", "POLYLINE"}
                        /\ \A n \in 1..Len(e.src) : e.src[n] \in 0..(Len(lines) - 1)

\* a read that failed for a missing ENDSEC on a file whose ENTITIES section holds
\* a complete LINE record
C6_Witness ==
    /\ pc = "done"
    /\ ~result.ok
    /\ \E p \in 1..Len(file) :
        /\ Strip(file[p]) = "ENTITIES"
        /\ \A q \in (p + 1)..Len(file) : Strip(file[q]) # "ENDSEC"
        /\ \E q \in (p + 1)..Len(file) : file[q] = "LINE"

---------------------------------------------------------------------------
(* Claims about one record (SpecArc, SpecPoly) *)

GroupCodes == {"8", "10", "20", "11", "21", "40", "42", "50", "51", "70"}

\* whether a value line of the record of the marker at i reads as one of the
\* group codes the reader searches for
RECURSIVE ValueIsCodeFrom(_, _)
ValueIsCodeFrom(lines, c) ==
    IF c + 1 >= Len(lines) THEN FALSE
    ELSE (lines[c + 1] # "0" /\ lines[c + 2] \in GroupCodes) \/ ValueIsCodeFrom(lines, c + 2)

ValueIsCode(lines) == ValueIsCodeFrom(lines, 0)

\* the end angle an arc from s degrees to e degrees is to be given
ExpectedEnd(s, e) == IF e >= s THEN Radians(e) ELSE Radians(e) + TwoPi

\* the claim's statement for the arc e read from the record of the marker at i
ArcAnglesAsClaimed(lines, e) ==
    IF lines[e.index + 1] = "CIRCLE" THEN e.a = <<0, TwoPi>>
    ELSE LET s0 == Float(Field(lines, e.index, "50"))
             e0 == Float(Field(lines, e.index, "51"))
         IN  /\ e.a[1] = Radians(s0)
             /\ e.a[2] = ExpectedEnd(s0, e0)
             /\ (s0 < 360 /\ e0 < 360) => (e.a[1] <= e.a[2] /\ e.a[2] < e.a[1] + TwoPi)

\* C9: the Arc read from an ARC record with start angle s and end angle e has
\* angle_start = s and angle_end = e if e >= s, e plus a full turn otherwise, so
\* that angle_start <= angle_end < angle_start + a full turn for s, e in [0, 360);
\* a CIRCLE record gives angle_start = 0 and angle_end = a full turn.
C9_ArcAngles ==
    pc = "done" =>
        /\ result.ok
        /\ Len(result.ents) = 1
        /\ ArcAnglesAsClaimed(SectionLines(file), result.ents[1])

\* C9 for the records none of whose values reads as a group code
C9_ArcAnglesPlainValues ==
    (pc = "done" /\ ~ValueIsCode(SectionLines(file))) =>
        /\ result.ok
        /\ Len(result.ents) = 1
        /\ ArcAnglesAsClaimed(SectionLines(file), result.ents[1])

\* a read of an ARC record whose end angle is below its start angle
C9_PlainWitness ==
    /\ Read
    /\ ~ValueIsCode(SectionLines(file))
    /\ \E i \in MarkerSet(SectionLines(file), "ARC") :
         Float(Field(SectionLines(file), i, "51")) < Float(Field(SectionLines(file), i, "50"))

\* the points of the vertices of the file, in file order
VertexPoints(lines) ==
    LET vi == Markers(lines, "VERTEX")
    IN  [k \in 1..Len(vi) |->
            <<Float(Field(lines, vi[k], "10")), Float(Field(lines, vi[k], "20"))>>]

\* whether the polyline of the marker at i has bit 0 of its flags set
IsClosed(lines, i) ==
    /\ HasField(lines, i, "70")
    /\ IsInt(Field(lines, i, "70"))
    /\ Float(Field(lines, i, "70")) % 2 = 1

StartOf(e) == <<e.x[1], e.y[1]>>

EndOf(e) == <<e.x[2], e.y[2]>>

\* the claim's statement for the list es read from one polyline with points pts
SegmentsAsClaimed(es, pts, closed) ==
    /\ Len(es) = IF closed THEN Len(pts) ELSE Len(pts) - 1
    /\ \A k \in 1..Len(es) : es[k].kind = "Line" /\ StartOf(es[k]) = pts[k]
    /\ \A k \in 1..(Len(es) - 1) : EndOf(es[k]) = StartOf(es[k + 1])
    /\ (closed /\ Len(es) >= 1) => EndOf(es[Len(es)]) = StartOf(es[1])
    /\ (~closed /\ Len(es) >= 1) => EndOf(es[Len(es)]) = pts[Len(pts)]

\* C5: one closed polyline of n >= 1 vertices, all with bulge 0 or none, reads as
\* n Lines in vertex order, each ending where the next starts and the last ending
\* where the first starts; with bit 0 clear it reads as n - 1 Lines.
C5_ClosedPolyline ==
    pc = "done" =>
        /\ result.ok
        /\ SegmentsAsClaimed(result.ents, VertexPoints(SectionLines(file)),
                             IsClosed(SectionLines(file), 1))

\* C5 for the records none of whose values reads as a group code
C5_ClosedPolylinePlainValues ==
    (pc = "done" /\ ~ValueIsCode(SectionLines(file))) =>
        /\ result.ok
        /\ SegmentsAsClaimed(result.ents, VertexPoints(SectionLines(file)),
                             IsClosed(SectionLines(file), 1))

\* a read of a closed polyline of three vertices
C5_PlainWitness ==
    /\ Read
    /\ ~ValueIsCode(SectionLines(file))
    /\ IsClosed(SectionLines(file), 1)
    /\ Len(result.ents) = 3

---------------------------------------------------------------------------
(* Claims about writing and reading back (SpecRT) *)

NoContour(es) == \A k \in 1..Len(es) : es[k].kind # "Contour"

\* the angles of the arc g as they are once it is turned counter-clockwise:
\* exchanged if it was clockwise
TurnedAngles(g) == IF g.ccw THEN g.a ELSE <<g.a[2], g.a[1]>>

\* an arc as the data model has it: turned counter-clockwise, it sweeps from its
\* start angle to its end angle through at most a full turn
WellFormed(g) ==
    g.kind = "Arc" =>
        /\ TurnedAngles(g)[1] <= TurnedAngles(g)[2]
        /\ TurnedAngles(g)[2] <= TurnedAngles(g)[1] + TwoPi

\* whether the entity r read back has the geometry of the entity g given
SameGeometry(g, r) ==
    /\ r.kind = g.kind
    /\ g.kind = "Line" => (r.x = g.x /\ r.y = g.y)
    /\ g.kind = "Arc" => (r.cx = g.cx /\ r.cy = g.cy /\ r.R = g.R /\ r.a = g.a)

\* the same, the end angle being a full turn more where it is below the start angle
SameGeometryTurned(g, r) ==
    /\ r.kind = g.kind
    /\ r.layer = "snijlijnen"
    /\ g.kind = "Line" => (r.x = g.x /\ r.y = g.y)
    /\ g.kind = "Arc" =>
        LET s == TurnedAngles(g)[1]
            e == TurnedAngles(g)[2]
        IN  /\ r.cx = g.cx /\ r.cy = g.cy /\ r.R = g.R
            /\ r.ccw
            /\ r.a = <<s, IF e < s THEN e + TwoPi ELSE e>>

\* C2 as stated, for the arcs of the data model: reading back what writer wrote
\* for a list of Lines and Arcs gives a list of the same length with the same
\* kind at each position and each entity's coordinates, centre, radius and
\* angles equal to the original's.
C2_RoundTripEqual ==
    (pc = "done" /\ NoContour(given) /\ \A k \in 1..Len(given) : WellFormed(given[k])) =>
        /\ result.ok
        /\ Len(result.ents) = Len(given)
        /\ \A k \in 1..Len(given) : SameGeometry(given[k], result.ents[k])

\* C2 as amended: the same for every list of Lines and Arcs, except that an arc
\* reads back counter-clockwise on the output layer with start angle s and end
\* angle e, or e plus a full turn if e < s, where (s, e) are the original's
\* (start, end) if it was counter-clockwise and its (end, start) if it was
\* clockwise.
C2_RoundTripTurned ==
    (pc = "done" /\ NoContour(given)) =>
        /\ result.ok
        /\ Len(result.ents) = Len(given)
        /\ \A k \in 1..Len(given) : SameGeometryTurned(given[k], result.ents[k])

\* a list of a Line and a clockwise Arc whose start angle is below its end angle,
\* written and read back
C2_Witness ==
    /\ pc = "done"
    /\ result.ok
    /\ Len(given) = 2
    /\ given[1].kind = "Line"
    /\ given[2].kind = "Arc" /\ ~given[2].ccw /\ given[2].a[1] < given[2].a[2]
    /\ Len(result.ents) = 2

---------------------------------------------------------------------------
(* The bounding box: BBox.__init__ and BBox.update.                        *)
(* A point is a tuple of numbers; the argument of a call is either a list  *)
(* of points or one bare point (bare = TRUE, pnts being that point).       *)

\* the value of a slot that holds no number
None == "None"

\* pnts = [pnts] for a bare point
Wrap(bare, pnts) == IF bare THEN <<pnts>> ELSE pnts

\* zip(*pnts): one column per coordinate, as many as the shortest point has
Zip(pnts) ==
    LET n == Min({Len(pnts[i]) : i \in 1..Len(pnts)})
    IN  [k \in 1..n |-> [i \in 1..Len(pnts) |-> pnts[i][k]]]

\* min(x) and max(x) of a column
MinOf(x) == Min({x[i] : i \in 1..Len(x)})

MaxOf(x) == Max({x[i] : i \in 1..Len(x)})

\* what a call leaves behind: the object's slots and the exception, if any
Done(self) == [ok |-> TRUE, err |-> "", box |-> self]

Failed(e, self) == [ok |-> FALSE, err |-> e, box |-> self]

\* x, y = zip(*pnts) and the four assignments after it
Unpack2(self, cols) ==
    IF Len(cols) # 2 THEN Failed("ValueError", self)
    ELSE Done([dim |-> 2,
               minx |-> MinOf(cols[1]), maxx |-> MaxOf(cols[1]),
               miny |-> MinOf(cols[2]), maxy |-> MaxOf(cols[2]),
               minz |-> None, maxz |-> None])

\* x, y, z = zip(*pnts) and the six assignments after it
Unpack3(self, cols) ==
    IF Len(cols) # 3 THEN Failed("ValueError", self)
    ELSE Done([dim |-> 3,
               minx |-> MinOf(cols[1]), maxx |-> MaxOf(cols[1]),
               miny |-> MinOf(cols[2]), maxy |-> MaxOf(cols[2]),
               minz |-> MinOf(cols[3]), maxz |-> MaxOf(cols[3])])

\* the branch on len(pnts[0]), which alone decides the dimension
InitPoints(self, pnts) ==
    IF Len(pnts[1]) = 2 THEN Unpack2([self EXCEPT !.dim = 2], Zip(pnts))
    ELSE IF Len(pnts[1]) = 3 THEN Unpack3([self EXCEPT !.dim = 3], Zip(pnts))
    ELSE Failed("ValueError", self)

\* BBox.__init__(self, pnts)
BBoxInit(self, bare, pnts) ==
    IF pnts = <<>> THEN Failed("ValueError", self)
    ELSE InitPoints(self, Wrap(bare, pnts))

\* the two corners update appends to the points
Corners(self) ==
    IF self.dim = 2
    THEN <<  <<self.minx, self.miny>>, <<self.maxx, self.maxy>>  >>
    ELSE <<  <<self.minx, self.miny, self.minz>>, <<self.maxx, self.maxy, self.maxz>>  >>

\* update once pnts is a list
UpdatePoints(self, pnts) ==
    IF pnts = <<>> THEN Failed("IndexError", self)
    ELSE IF self.dim # Len(pnts[1]) THEN Failed("ValueError", self)
    ELSE BBoxInit(self, FALSE, pnts \o Corners(self))

\* BBox.update(self, pnts)
BBoxUpdate(self, bare, pnts) == UpdatePoints(self, Wrap(bare, pnts))

\* the points of a call: 2-tuples and 3-tuples
Points == UNION {[1..d -> 0..MaxCoord] : d \in {2, 3}}

\* the arguments of a call: a bare point, or a list of points, the empty one included
Args(bare) == IF bare THEN Points ELSE SeqsUpTo(Points, MaxPts)

InitBB ==
    /\ pc = "new"
    /\ file = <<>>
    /\ result = NotRun
    /\ given = <<>>
    /\ entities = <<>>
    /\ box = NoBox
    /\ arg = NoArg
    /\ raised = ""

\* the call has returned: r is what it left behind
Return(op, bare, pnts, r, created) ==
    /\ arg' = [op |-> op, bare |-> bare, pnts |-> pnts]
    /\ raised' = r.err
    /\ box' = IF created THEN r.box ELSE NoBox
    /\ pc' = IF created THEN "box" ELSE "new"
    /\ UNCHANGED <<file, result, given, entities>>

\* BBox(pnts): an exception leaves the caller without an object
Construct ==
    /\ pc = "new"
    /\ \E bare \in BOOLEAN : \E pnts \in Args(bare) :
        Return("init", bare, pnts, BBoxInit(NoBox, bare, pnts),
               BBoxInit(NoBox, bare, pnts).ok)

\* box.update(pnts): the object is there afterwards whether or not it raised
Update ==
    /\ pc = "box"
    /\ \E bare \in BOOLEAN : \E pnts \in Args(bare) :
        Return("update", bare, pnts, BBoxUpdate(box, bare, pnts), TRUE)

NextBB == Construct \/ Update

SpecBB == InitBB /\ [][NextBB]_vars

---------------------------------------------------------------------------
(* Claim checked on SpecBB *)

\* the dimensions of the points supplied by a call
Dims(a) == {Len(p) : p \in {Wrap(a.bare, a.pnts)[i] : i \in 1..Len(Wrap(a.bare, a.pnts))}}

\* whether the box b encloses the point p, in every coordinate both have
Encloses(b, p) ==
    /\ b.minx <= p[1] /\ p[1] <= b.maxx
    /\ b.miny <= p[2] /\ p[2] <= b.maxy
    /\ (b.dim = 3 /\ Len(p) = 3) => (b.minz <= p[3] /\ p[3] <= b.maxz)

\* a call that returned has left ordered bounds around every supplied point
Enclosing(b, a) ==
    /\ b.minx <= b.maxx
    /\ b.miny <= b.maxy
    /\ \A i \in 1..Len(Wrap(a.bare, a.pnts)) : Encloses(b, Wrap(a.bare, a.pnts)[i])

\* C10 as stated: constructing a BBox raises and produces no box whenever the
\* point list is empty or holds both 2-tuples and 3-tuples, in either order;
\* update raises and leaves the bounds unchanged whenever a supplied point's
\* dimensionality differs from the box's dimension; and a call that succeeds
\* leaves minx <= maxx, miny <= maxy and every supplied point enclosed.
C10_BBoxContract ==
    [][/\ (arg'.op = "init" /\ Cardinality(Dims(arg')) # 1) =>
            (raised' # "" /\ box' = NoBox)
       /\ (arg'.op = "update" /\ \E d \in Dims(arg') : d # box.dim) =>
            (raised' # "" /\ box' = box)
       /\ (arg'.op # "" /\ raised' = "") => Enclosing(box', arg')
      ]_vars

\* the part of C10 that the code does keep: a call that raised has produced no box
\* (constructor) or left every slot as it was (update), and a call that returned
\* has left ordered bounds around every supplied point
C10_FailureLeavesBounds ==
    [][/\ (arg'.op = "init" /\ raised' # "") => box' = NoBox
       /\ (arg'.op = "update" /\ raised' # "") => box' = box
       /\ (arg'.op # "" /\ raised' = "") => Enclosing(box', arg')
      ]_vars

\* the constructor has returned a box for a list of a 2-tuple followed by a 3-tuple
C10_MixedAccepted ==
    /\ arg.op = "init"
    /\ raised = ""
    /\ Dims(arg) = {2, 3}
    /\ box.dim = 2

====
